---- MODULE Spec2Model ----
(***************************************************************************)
(* persistent_structures: FSDict (a directory seen as a mutable mapping)   *)
(* and FSQueue (a directory seen as a queue).  The filesystem is the only  *)
(* state; the handles hold just a directory path.                          *)
(*                                                                         *)
(* Strings whose characters matter (queue file names, file contents) are   *)
(* sequences of code points, so that Python's comparison of strings, its   *)
(* str.split, int(), str.format and text-mode newline handling are         *)
(* computed and not assumed.                                               *)
(***************************************************************************)
EXTENDS Integers, Sequences, FiniteSets, TLC

VARIABLES
    qdir,     \* FSQueue: the queue directory, file name -> entry
    fifo,     \* history: the Puts not yet dequeued, oldest first
    fs,       \* FSDict: the directory tree, absolute path -> entry
    handles,  \* FSDict: the directories FSDict objects are bound to
    res,      \* the last call and its outcome
    procs     \* concurrent callers: process -> the call it is inside

vars == <<qdir, fifo, fs, handles, res, procs>>

(***************************************************************************)
(* Bounds                                                                  *)
(***************************************************************************)
\* longest text value a caller passes to Put / Set
MaxTextLen == 1
\* most Puts the sequential queue caller leaves pending
MaxPending == 3

\* highest index among the entries a queue directory holds when it is opened
MaxIndex == 10

\* calls each concurrent caller makes
MaxOps == 2

(***************************************************************************)
(* Text: code points, and what text-mode files do to them                  *)
(***************************************************************************)
\* 'a', carriage return
Chars == {97, 13}

RECURSIVE SeqsUpTo(_, _)
SeqsUpTo(S, n) ==
    IF n = 0 THEN {<<>>}
    ELSE LET shorter == SeqsUpTo(S, n - 1)
         IN  shorter \cup {Append(s, c) : s \in shorter, c \in S}

TextValues == SeqsUpTo(Chars, MaxTextLen)

\* os.linesep on POSIX
LineSep == <<10>>

\* open(path, 'w').write(v): newline=None, every "\n" is written as os.linesep
RECURSIVE WriteText(_)
WriteText(v) ==
    IF v = <<>> THEN <<>>
    ELSE IF Head(v) = 10 THEN LineSep \o WriteText(Tail(v))
    ELSE <<Head(v)>> \o WriteText(Tail(v))

\* open(path).read(): newline=None, universal newlines: "\r\n" and a lone
\* "\r" both come back as "\n"
RECURSIVE ReadText(_)
ReadText(c) ==
    IF c = <<>> THEN <<>>
    ELSE IF Head(c) = 13
         THEN IF Len(c) >= 2 /\ c[2] = 10
              THEN <<10>> \o ReadText(Tail(Tail(c)))
              ELSE <<10>> \o ReadText(Tail(c))
    ELSE <<Head(c)>> \o ReadText(Tail(c))

(***************************************************************************)
(* Python string primitives used by FSQueue._put                           *)
(***************************************************************************)
\* a < b for Python str: lexicographic by code point, a proper prefix first
RECURSIVE StrLT(_, _)
StrLT(a, b) ==
    IF b = <<>> THEN FALSE
    ELSE IF a = <<>> THEN TRUE
    ELSE IF Head(a) # Head(b) THEN Head(a) < Head(b)
    ELSE StrLT(Tail(a), Tail(b))

\* a faulty a > b: names compared as numbers are, the longer one greater
StrGTByLength(a, b) ==
    Len(a) > Len(b) \/ (Len(a) = Len(b) /\ StrLT(b, a))

StrGT(a, b) == StrLT(b, a)

\* str(n) / '{}'.format(n) for n >= 0
RECURSIVE IntToStr(_)
IntToStr(n) ==
    IF n < 10 THEN <<48 + n>>
    ELSE IntToStr(n \div 10) \o <<48 + (n % 10)>>

IsDigit(c) == c >= 48 /\ c <= 57

\* int(s) accepts s when it is a non-empty run of decimal digits
IsDecimal(s) == s # <<>> /\ \A i \in 1..Len(s) : IsDigit(s[i])

RECURSIVE StrToInt(_)
StrToInt(s) ==
    IF s = <<>> THEN 0
    ELSE 10 * StrToInt(SubSeq(s, 1, Len(s) - 1)) + (s[Len(s)] - 48)

StartsWithAt(s, p, i) ==
    /\ i + Len(p) - 1 <= Len(s)
    /\ SubSeq(s, i, i + Len(p) - 1) = p

\* s.split(p)[-1]: what follows the last occurrence of p, or s itself
SplitLast(s, p) ==
    LET hits == {i \in 1..Len(s) : StartsWithAt(s, p, i)}
    IN  IF hits = {} THEN s
        ELSE LET last == CHOOSE i \in hits : \A j \in hits : j <= i
             IN  SubSeq(s, last + Len(p), Len(s))

\* sorted(os.listdir(directory)): the names in ascending str order
RECURSIVE SortedNames(_)
SortedNames(S) ==
    IF S = {} THEN <<>>
    ELSE LET least == CHOOSE n \in S : \A m \in S \ {n} : StrLT(n, m)
         IN  <<least>> \o SortedNames(S \ {least})

(***************************************************************************)
(* FSQueue                                                                 *)
(***************************************************************************)
EmptyFn == [x \in {} |-> x]

\* file_prefix = 'FSList-'
FilePrefix == <<70, 83, 76, 105, 115, 116, 45>>

QName(n) == FilePrefix \o IntToStr(n)

FileEntry(content) == [kind |-> "file", content |-> content]
DirEntry == [kind |-> "dir", content |-> <<>>]
OtherEntry == [kind |-> "other", content |-> <<>>]

\* a call's record: what was called, with what, and how it ended
\*   op, err        the method and "ok" or the exception that left it
\*   name           FSQueue: the file the call wrote or removed
\*   h, key, val    FSDict: the handle's directory, the key, the value
\*   pre, dir       FSDict: what the key named before the call, and where
\*   kind, ret      the result: "text" and the string, or "FSDict"
\*   n, keys        the result of a size / len call, of an iteration
NoRes ==
    [op |-> "none", err |-> "ok", name |-> <<>>, h |-> <<>>, key |-> <<>>,
     val |-> <<>>, pre |-> "none", dir |-> <<>>, kind |-> "none",
     ret |-> <<>>, n |-> 0, keys |-> <<>>]

\* os.listdir(self.directory)
QListDir == DOMAIN qdir

\* len(os.listdir(self.directory))
QSizeOf(d) == Cardinality(DOMAIN d)

\* the for loop of _put: the greatest of the baseline and the listed names
RECURSIVE HighestName(_, _)
HighestName(items, highest) ==
    IF items = <<>> THEN highest
    ELSE IF StrGT(Head(items), highest)
         THEN HighestName(Tail(items), Head(items))
         ELSE HighestName(Tail(items), highest)

\* the suffix int() is asked to parse
HighestSuffix(names) ==
    SplitLast(HighestName(SortedNames(names), QName(1)), FilePrefix)

\* the name _put generates for a directory listing
NewName(names) ==
    LET suffix == HighestSuffix(names)
        current_index == IF suffix # <<>> THEN StrToInt(suffix) ELSE 0
    IN  QName(current_index + 1)

\* _put(data) when the highest name's suffix parses and the new name is
\* free or a regular file: open(..., 'w') creates or truncates it
QPut(data) ==
    /\ Len(fifo) < MaxPending
    /\ HighestSuffix(QListDir) = <<>> \/ IsDecimal(HighestSuffix(QListDir))
    /\ LET new_name == NewName(QListDir)
       IN  /\ new_name \in DOMAIN qdir => qdir[new_name].kind = "file"
           /\ qdir' = [n \in DOMAIN qdir \cup {new_name} |->
                         IF n = new_name THEN FileEntry(WriteText(data))
                         ELSE qdir[n]]
           /\ fifo' = Append(fifo, [name |-> new_name, val |-> data])
           /\ res' = [NoRes EXCEPT !.op = "put", !.name = new_name,
                                       !.val = data]
    /\ UNCHANGED <<procs, fs, handles>>

\* _get() on an empty directory: items[0] raises IndexError before the try
QGetEmpty ==
    /\ QListDir = {}
    /\ res' = [NoRes EXCEPT !.op = "get", !.err = "IndexError"]
    /\ UNCHANGED <<procs, qdir, fifo, fs, handles>>

\* _get() whose first entry is a regular file: read, remove, return
QGetFile ==
    /\ QListDir # {}
    /\ LET items == SortedNames(QListDir)
           target == items[1]
       IN  /\ qdir[target].kind = "file"
           /\ qdir' = [n \in DOMAIN qdir \ {target} |-> qdir[n]]
           /\ fifo' = SelectSeq(fifo, LAMBDA e : e.name # target)
           /\ res' = [NoRes EXCEPT !.op = "get", !.name = target,
                                       !.kind = "text",
                                       !.ret = ReadText(qdir[target].content)]
    /\ UNCHANGED <<procs, fs, handles>>

\* _qsize()
QSize ==
    /\ res' = [NoRes EXCEPT !.op = "qsize", !.n = QSizeOf(qdir)]
    /\ UNCHANGED <<procs, qdir, fifo, fs, handles>>

\* an empty queue directory, one FSQueue constructed on it
QueueInit ==
    /\ qdir = EmptyFn
    /\ fifo = <<>>
    /\ fs = EmptyFn
    /\ handles = {}
    /\ res = NoRes
    /\ procs = EmptyFn

QueueNext ==
    \/ \E data \in TextValues : QPut(data)
    \/ QGetEmpty
    \/ QGetFile
    \/ QSize

\* one caller using one FSQueue on a directory that starts empty
SpecQueue == QueueInit /\ [][QueueNext]_vars

\* _put(data) when the highest name's suffix is not a number: int(suffix)
\* raises ValueError before anything is written
QPutBadSuffix(data) ==
    /\ HighestSuffix(QListDir) # <<>>
    /\ ~IsDecimal(HighestSuffix(QListDir))
    /\ res' = [NoRes EXCEPT !.op = "put", !.val = data, !.err = "ValueError"]
    /\ UNCHANGED <<procs, qdir, fifo, fs, handles>>

\* _put(data) when the new name is a directory: open(..., 'w') raises
\* IsADirectoryError
QPutOnDir(data) ==
    /\ HighestSuffix(QListDir) = <<>> \/ IsDecimal(HighestSuffix(QListDir))
    /\ LET new_name == NewName(QListDir)
       IN  /\ new_name \in DOMAIN qdir
           /\ qdir[new_name].kind = "dir"
           /\ res' = [NoRes EXCEPT !.op = "put", !.name = new_name,
                                       !.val = data,
                                       !.err = "IsADirectoryError"]
    /\ UNCHANGED <<procs, qdir, fifo, fs, handles>>

\* _get() whose first entry is not a regular file: raise KeyError
QGetNotFile ==
    /\ QListDir # {}
    /\ LET items == SortedNames(QListDir)
           target == items[1]
       IN  /\ qdir[target].kind # "file"
           /\ res' = [NoRes EXCEPT !.op = "get", !.name = target,
                                       !.err = "KeyError"]
    /\ UNCHANGED <<procs, qdir, fifo, fs, handles>>

\* a name that does not come from _put: 'z'
ForeignName == <<122>>

\* a directory on which FSQueue is constructed: the entries FSList-1 ..
\* FSList-hi, regular files holding 'a', with the last of them a directory
\* ("dirlast") or with a file named 'z' beside them ("foreign")
QDirOf(hi, opt) ==
    [n \in {QName(i) : i \in 1..hi}
            \cup (IF opt = "foreign" THEN {ForeignName} ELSE {}) |->
        IF opt = "dirlast" /\ n = QName(hi) THEN DirEntry
        ELSE FileEntry(<<97>>)]

\* the directories around the index at which the names gain a digit
InitialDirs ==
    {QDirOf(hi, "files") : hi \in (MaxIndex - 2)..MaxIndex}
        \cup {QDirOf(MaxIndex, opt) : opt \in {"dirlast", "foreign"}}

\* FSQueue constructed on an existing directory
QueueDirInit ==
    /\ qdir \in InitialDirs
    /\ fifo = <<>>
    /\ fs = EmptyFn
    /\ handles = {}
    /\ res = NoRes
    /\ procs = EmptyFn

\* the values put here: the empty string, 'a', a carriage return
ShortValues == {v \in TextValues : Len(v) <= 1}

QPutAny == \E data \in ShortValues : QPut(data)

QPutBadSuffixAny == \E data \in ShortValues : QPutBadSuffix(data)

QPutOnDirAny == \E data \in ShortValues : QPutOnDir(data)

QueueDirNext ==
    \/ QPutAny
    \/ QPutBadSuffixAny
    \/ QPutOnDirAny
    \/ QGetEmpty
    \/ QGetFile
    \/ QGetNotFile
    \/ QSize

\* one caller using one FSQueue on a directory that already holds entries
SpecQueueDir == QueueDirInit /\ [][QueueDirNext]_vars

(***************************************************************************)
(* FSQueue used by two processes at once.  A call is a sequence of system  *)
(* calls, and the other process runs between any two of them:              *)
(*   _put   listdir | open(new_name, 'w') | write and close                *)
(*   _get   listdir | isfile | open and read | remove                      *)
(* An open file stays open when its name is removed: what is written to it *)
(* afterwards is in no directory.                                          *)
(***************************************************************************)
Procs == {"p", "q"}

\* a process between calls, with `left` calls to go; inside a call:
\*   pc     the system call it makes next
\*   name   the file the call works on
\*   val    _put: the data;  raw  _get: the content read
\*   live   _put: the open file is still the directory's entry `name`
Idle(left) ==
    [pc |-> "idle", name |-> <<>>, val |-> <<>>, raw |-> <<>>,
     live |-> FALSE, left |-> left]

\* the values put: 'a', a carriage return
ConcValues == {v \in TextValues : Len(v) = 1}

\* _put: listdir, and the new name computed from it
CPutList(p, data) ==
    /\ procs[p].pc = "idle"
    /\ procs[p].left > 0
    /\ HighestSuffix(QListDir) = <<>> \/ IsDecimal(HighestSuffix(QListDir))
    /\ procs' = [procs EXCEPT ![p] = [@ EXCEPT !.pc = "put_open",
                                               !.name = NewName(QListDir),
                                               !.val = data,
                                               !.left = @ - 1]]
    /\ UNCHANGED <<qdir, fifo, fs, handles, res>>

\* _put: open(new_name, 'w') creates the file or truncates the one there;
\* fifo records the Put
CPutOpen(p) ==
    /\ procs[p].pc = "put_open"
    /\ LET new_name == procs[p].name
       IN  /\ qdir' = [n \in DOMAIN qdir \cup {new_name} |->
                         IF n = new_name THEN FileEntry(<<>>) ELSE qdir[n]]
           /\ fifo' = Append(fifo, [name |-> new_name, val |-> procs[p].val])
    /\ procs' = [procs EXCEPT ![p] = [@ EXCEPT !.pc = "put_write",
                                               !.live = TRUE]]
    /\ UNCHANGED <<fs, handles, res>>

\* _put: file_handle.write(data) and the close that flushes it
CPutWrite(p) ==
    /\ procs[p].pc = "put_write"
    /\ qdir' = IF procs[p].live
               THEN [qdir EXCEPT ![procs[p].name] =
                        FileEntry(WriteText(procs[p].val))]
               ELSE qdir
    /\ res' = [NoRes EXCEPT !.op = "put", !.name = procs[p].name,
                                !.val = procs[p].val]
    /\ procs' = [procs EXCEPT ![p] = Idle(@.left)]
    /\ UNCHANGED <<fifo, fs, handles>>

\* _get: listdir returns nothing, items[0] raises IndexError
CGetEmpty(p) ==
    /\ procs[p].pc = "idle"
    /\ procs[p].left > 0
    /\ QListDir = {}
    /\ res' = [NoRes EXCEPT !.op = "get", !.err = "IndexError"]
    /\ procs' = [procs EXCEPT ![p] = Idle(@.left - 1)]
    /\ UNCHANGED <<qdir, fifo, fs, handles>>

\* _get: listdir, sort, target = items[0]
CGetList(p) ==
    /\ procs[p].pc = "idle"
    /\ procs[p].left > 0
    /\ QListDir # {}
    /\ procs' = [procs EXCEPT ![p] = [@ EXCEPT !.pc = "get_isfile",
                                               !.name = SortedNames(QListDir)[1],
                                               !.left = @ - 1]]
    /\ UNCHANGED <<qdir, fifo, fs, handles, res>>

\* _get: os.path.isfile(target); a name removed meanwhile is no file and
\* the call raises KeyError
CGetIsFile(p) ==
    /\ procs[p].pc = "get_isfile"
    /\ IF procs[p].name \in DOMAIN qdir
       THEN /\ procs' = [procs EXCEPT ![p] = [@ EXCEPT !.pc = "get_read"]]
            /\ res' = res
       ELSE /\ procs' = [procs EXCEPT ![p] = Idle(@.left)]
            /\ res' = [NoRes EXCEPT !.op = "get", !.name = procs[p].name,
                                        !.err = "KeyError"]
    /\ UNCHANGED <<qdir, fifo, fs, handles>>

\* _get: open(target) and read(); on a name removed meanwhile open raises
\* FileNotFoundError, which the except clause does not catch
CGetRead(p) ==
    /\ procs[p].pc = "get_read"
    /\ IF procs[p].name \in DOMAIN qdir
       THEN /\ procs' = [procs EXCEPT ![p] =
                            [@ EXCEPT !.pc = "get_remove",
                                      !.raw = qdir[procs[p].name].content]]
            /\ res' = res
       ELSE /\ procs' = [procs EXCEPT ![p] = Idle(@.left)]
            /\ res' = [NoRes EXCEPT !.op = "get", !.name = procs[p].name,
                                        !.err = "FileNotFoundError"]
    /\ UNCHANGED <<qdir, fifo, fs, handles>>

\* _get: os.remove(target) and return content; on a name removed meanwhile
\* os.remove raises FileNotFoundError
CGetRemove(p) ==
    /\ procs[p].pc = "get_remove"
    /\ LET target == procs[p].name
       IN  IF target \in DOMAIN qdir
           THEN /\ qdir' = [n \in DOMAIN qdir \ {target} |-> qdir[n]]
                /\ procs' = [o \in Procs |->
                                IF o = p THEN Idle(procs[p].left)
                                ELSE IF procs[o].name = target
                                THEN [procs[o] EXCEPT !.live = FALSE]
                                ELSE procs[o]]
                /\ res' = [NoRes EXCEPT !.op = "get", !.name = target,
                                            !.kind = "text",
                                            !.ret = ReadText(procs[p].raw)]
           ELSE /\ qdir' = qdir
                /\ procs' = [procs EXCEPT ![p] = Idle(@.left)]
                /\ res' = [NoRes EXCEPT !.op = "get", !.name = target,
                                            !.err = "FileNotFoundError"]
    /\ UNCHANGED <<fifo, fs, handles>>

\* an empty queue directory, one FSQueue per process constructed on it
QueueConcInit ==
    /\ qdir = EmptyFn
    /\ fifo = <<>>
    /\ fs = EmptyFn
    /\ handles = {}
    /\ res = NoRes
    /\ procs = [p \in Procs |-> Idle(MaxOps)]

PutList == \E p \in Procs, data \in ConcValues : CPutList(p, data)

PutOpen == \E p \in Procs : CPutOpen(p)

PutWrite == \E p \in Procs : CPutWrite(p)

GetEmpty == \E p \in Procs : CGetEmpty(p)

GetList == \E p \in Procs : CGetList(p)

GetIsFile == \E p \in Procs : CGetIsFile(p)

GetRead == \E p \in Procs : CGetRead(p)

GetRemove == \E p \in Procs : CGetRemove(p)

QueueConcNext ==
    \/ PutList
    \/ PutOpen
    \/ PutWrite
    \/ GetEmpty
    \/ GetList
    \/ GetIsFile
    \/ GetRead
    \/ GetRemove

\* two processes, each with its own FSQueue on the same directory
SpecQueueConc == QueueConcInit /\ [][QueueConcNext]_vars

(***************************************************************************)
(* FSDict: the directory tree and the system calls on it                   *)
(***************************************************************************)
\* entry names; the tree is the root directory, its children "a" and "b",
\* and, when "a" is a directory, its child "a"
Names == {"a", "b"}

DirNames == {"a"}

AllPaths == {<<n>> : n \in Names} \cup {<<n, m>> : n \in DirNames, m \in DirNames}

\* a key is a relative path: os.path.join(self.directory, k) takes any str.
\* ".." is the parent directory, "NUL" a name holding a null byte, "/" the
\* absolute key '/', for which join drops the directory
KeyParts == Names \cup {".."}

Keys ==
    {<<c>> : c \in KeyParts \cup {"NUL", "/"}}
        \cup {<<c, n>> : c \in KeyParts, n \in Names}

\* the root of the filesystem, a directory outside the tree
FsRoot == <<"/">>

Parent(p) == SubSeq(p, 1, Len(p) - 1)

Front(k) == SubSeq(k, 1, Len(k) - 1)

Last(k) == k[Len(k)]

\* what a path names: "dir", "file", "other" (neither a regular file nor a
\* directory: a dangling symlink, a FIFO, a device) or "absent"
Kind(f, p) ==
    IF p = <<>> \/ p = FsRoot THEN "dir"
    ELSE IF p \in DOMAIN f THEN f[p].kind
    ELSE "absent"

\* os.listdir(directory)
Children(f, p) == {n \in Names : Append(p, n) \in DOMAIN f}


\* the kernel's path walk from directory cur along the components ks
RECURSIVE Walk(_, _, _)
Walk(f, cur, ks) ==
    IF ks = <<>> THEN [st |-> "ok", path |-> cur]
    ELSE IF Head(ks) = "/" THEN Walk(f, FsRoot, Tail(ks))
    ELSE IF Kind(f, cur) # "dir" THEN [st |-> "ENOTDIR", path |-> cur]
    ELSE IF Head(ks) = ".."
         THEN IF cur = <<>> THEN [st |-> "outside", path |-> cur]
              ELSE Walk(f, Parent(cur), Tail(ks))
    ELSE LET next == Append(cur, Head(ks))
         IN  IF next \notin DOMAIN f THEN [st |-> "ENOENT", path |-> next]
             ELSE Walk(f, next, Tail(ks))

HasNul(k) == \E i \in 1..Len(k) : k[i] = "NUL"

\* os.path.isfile / os.path.isdir: False on any failure of stat, an embedded
\* null byte included
IsFile(f, h, k) ==
    /\ ~HasNul(k)
    /\ Walk(f, h, k).st = "ok"
    /\ Kind(f, Walk(f, h, k).path) = "file"

IsDir(f, h, k) ==
    /\ ~HasNul(k)
    /\ Walk(f, h, k).st = "ok"
    /\ Kind(f, Walk(f, h, k).path) = "dir"

\* the exception of a failed system call
Raised(errno) ==
    CASE errno = "ENOENT" -> "FileNotFoundError"
      [] errno = "ENOTDIR" -> "NotADirectoryError"
      [] errno = "EISDIR" -> "IsADirectoryError"
      [] errno = "NUL" -> "ValueError"

\* where the last component of join(h, k) lives, for a call that creates or
\* unlinks it: the exception, or "none" with the path and what is there
Locate(f, h, k) ==
    IF HasNul(k) THEN [exc |-> Raised("NUL"), path |-> <<>>, pre |-> "none"]
    ELSE LET par == Walk(f, h, Front(k))
         IN  IF par.st # "ok"
             THEN [exc |-> Raised(par.st), path |-> <<>>, pre |-> "none"]
             ELSE IF Kind(f, par.path) # "dir"
             THEN [exc |-> Raised("ENOTDIR"), path |-> <<>>, pre |-> "none"]
             ELSE IF Last(k) \in {"..", "/"}
             THEN [exc |-> Raised("EISDIR"), path |-> <<>>, pre |-> "dir"]
             ELSE LET t == Append(par.path, Last(k))
                  IN  IF Kind(f, t) = "dir"
                      THEN [exc |-> Raised("EISDIR"), path |-> t, pre |-> "dir"]
                      ELSE [exc |-> "none", path |-> t, pre |-> Kind(f, t)]

\* the keys whose path stays inside the modelled tree
InTree(f, h, k) ==
    \/ HasNul(k)
    \/ /\ Walk(f, h, k).st # "outside"
       /\ Locate(f, h, k).exc = "none" => Locate(f, h, k).path \in AllPaths

\* open(path, 'w') on an absent name or a regular file
OpenForWrite(f, h, k) == Locate(f, h, k)

\* os.remove(path): a missing name is ENOENT
Remove(f, h, k) ==
    LET loc == Locate(f, h, k)
    IN  IF loc.exc = "none" /\ loc.pre = "absent"
        THEN [loc EXCEPT !.exc = Raised("ENOENT")]
        ELSE loc

WithEntry(f, p, e) == [q \in DOMAIN f \cup {p} |-> IF q = p THEN e ELSE f[q]]

\* a faulty os.remove: the entry is emptied, not unlinked
WithoutEntryTruncates(f, p) == WithEntry(f, p, FileEntry(<<>>))

WithoutEntry(f, p) == [q \in DOMAIN f \ {p} |-> f[q]]

(***************************************************************************)
(* FSDict                                                                  *)
(***************************************************************************)
DictHandle(directory) == [cls |-> "FSDict", directory |-> directory]

DictDirs == {hd.directory : hd \in handles}

\* a faulty test: os.path.exists in place of os.path.isdir
InitAcceptsExisting(f, directory) == Kind(f, directory) # "absent"

\* __init__: os.path.isdir(directory)
InitAccepts(f, directory) == Kind(f, directory) = "dir"

\* FSDict(directory), directory any path of the tree
FSDictInit(directory) ==
    /\ IF InitAccepts(fs, directory)
       THEN /\ handles' = handles \cup {DictHandle(directory)}
            /\ res' = [NoRes EXCEPT !.op = "FSDict", !.dir = directory]
       ELSE /\ handles' = handles
            /\ res' = [NoRes EXCEPT !.op = "FSDict", !.dir = directory,
                                    !.err = "ValueError"]
    /\ UNCHANGED <<procs, qdir, fifo, fs>>

\* FSQueue(directory): the same test, then the fields and Queue.__init__
FSQueueInit(directory) ==
    /\ IF InitAccepts(fs, directory)
       THEN res' = [NoRes EXCEPT !.op = "FSQueue", !.dir = directory]
       ELSE res' = [NoRes EXCEPT !.op = "FSQueue", !.dir = directory,
                                 !.err = "ValueError"]
    /\ UNCHANGED <<procs, qdir, fifo, fs, handles>>

\* the except clause of __setitem__: (OSError, IOError, ValueError, TypeError)
SetCatches(exc) ==
    exc \in {"FileNotFoundError", "NotADirectoryError", "IsADirectoryError",
             "ValueError"}

\* __setitem__(k, v) when k names no special file
SetItemOn(h, k, v) ==
    LET o == OpenForWrite(fs, h, k)
        call == [NoRes EXCEPT !.op = "setitem", !.h = h, !.key = k, !.val = v,
                              !.pre = o.pre, !.dir = o.path]
    IN  /\ o.pre # "other"
        /\ IF o.exc = "none"
           THEN /\ fs' = WithEntry(fs, o.path, FileEntry(WriteText(v)))
                /\ res' = call
           ELSE /\ fs' = fs
                /\ res' = [call EXCEPT !.err = IF SetCatches(o.exc)
                                                THEN "KeyError" ELSE o.exc]
        /\ UNCHANGED <<procs, qdir, fifo, handles>>

\* __setitem__(k, v) when k names a special file; the docstring leaves it
\* undefined.  A socket or an unreadable node: open fails
SetItemSpecialFails(h, k, v) ==
    LET o == OpenForWrite(fs, h, k)
    IN  /\ o.exc = "none" /\ o.pre = "other"
        /\ res' = [NoRes EXCEPT !.op = "setitem", !.h = h, !.key = k,
                                !.val = v, !.pre = o.pre, !.dir = o.path,
                                !.err = "KeyError"]
        /\ UNCHANGED <<procs, qdir, fifo, fs, handles>>

\* a dangling symlink: open creates its target, the key now reads as a file
SetItemSpecialLink(h, k, v) ==
    LET o == OpenForWrite(fs, h, k)
    IN  /\ o.exc = "none" /\ o.pre = "other"
        /\ fs' = WithEntry(fs, o.path, FileEntry(WriteText(v)))
        /\ res' = [NoRes EXCEPT !.op = "setitem", !.h = h, !.key = k,
                                !.val = v, !.pre = o.pre, !.dir = o.path]
        /\ UNCHANGED <<procs, qdir, fifo, handles>>

\* a device: the write is swallowed, the entry stays what it was
SetItemSpecialDevice(h, k, v) ==
    LET o == OpenForWrite(fs, h, k)
    IN  /\ o.exc = "none" /\ o.pre = "other"
        /\ res' = [NoRes EXCEPT !.op = "setitem", !.h = h, !.key = k,
                                !.val = v, !.pre = o.pre, !.dir = o.path]
        /\ UNCHANGED <<procs, qdir, fifo, fs, handles>>

\* what __getitem__(k) does on handle directory h: the exception or the
\* result, a string or the directory of a new FSDict
GetOutcome(f, h, k) ==
    LET target == Walk(f, h, k).path
    IN  IF IsFile(f, h, k)
        THEN [err |-> "ok", kind |-> "text",
              ret |-> ReadText(f[target].content), dir |-> target]
        ELSE IF IsDir(f, h, k)
        THEN IF InitAccepts(f, target)
             THEN [err |-> "ok", kind |-> "FSDict", ret |-> <<>>, dir |-> target]
             ELSE [err |-> "KeyError", kind |-> "none", ret |-> <<>>, dir |-> target]
        ELSE [err |-> "KeyError", kind |-> "none", ret |-> <<>>, dir |-> <<>>]

\* __getitem__(k)
GetItemOn(h, k) ==
    LET g == GetOutcome(fs, h, k)
    IN  /\ res' = [NoRes EXCEPT !.op = "getitem", !.h = h, !.key = k,
                                !.err = g.err, !.kind = g.kind, !.ret = g.ret,
                                !.dir = g.dir]
        /\ handles' = IF g.kind = "FSDict" /\ g.dir # FsRoot
                      THEN handles \cup {DictHandle(g.dir)}
                      ELSE handles
        /\ UNCHANGED <<procs, qdir, fifo, fs>>

\* the except clause of __delitem__: FileNotFoundError
DelCatches(exc) == exc = "FileNotFoundError"

\* __delitem__(k)
DelItemOn(h, k) ==
    LET r == Remove(fs, h, k)
        call == [NoRes EXCEPT !.op = "delitem", !.h = h, !.key = k,
                              !.pre = r.pre, !.dir = r.path]
    IN  /\ IF r.exc = "none"
           THEN /\ fs' = WithoutEntry(fs, r.path)
                /\ res' = call
           ELSE /\ fs' = fs
                /\ res' = [call EXCEPT !.err = IF DelCatches(r.exc)
                                                THEN "KeyError" ELSE r.exc]
        /\ UNCHANGED <<procs, qdir, fifo, handles>>

\* __len__: len(os.listdir(self.directory))
LenOf(f, h) == Cardinality(Children(f, h))

DictLen(h) ==
    /\ res' = [NoRes EXCEPT !.op = "len", !.h = h, !.n = LenOf(fs, h)]
    /\ UNCHANGED <<procs, qdir, fifo, fs, handles>>

\* the orders in which the filesystem may list a set of names
RECURSIVE Listings(_)
Listings(S) ==
    IF S = {} THEN {<<>>}
    ELSE UNION {{<<n>> \o l : l \in Listings(S \ {n})} : n \in S}

\* a faulty filter: regular files only
IterKeepsFilesOnly(f, h, name) == IsFile(f, h, <<name>>)

\* the filter of __iter__: any((os.path.isfile(file), os.path.isdir(file)))
IterKeeps(f, h, name) == IsFile(f, h, <<name>>) \/ IsDir(f, h, <<name>>)

\* __iter__ drained: the names of os.scandir kept by the filter
IterKeys(f, h, listing) == SelectSeq(listing, LAMBDA name : IterKeeps(f, h, name))

DictIter(h) ==
    \E listing \in Listings(Children(fs, h)) :
        /\ res' = [NoRes EXCEPT !.op = "iter", !.h = h,
                                !.keys = IterKeys(fs, h, listing)]
        /\ UNCHANGED <<procs, qdir, fifo, fs, handles>>

\* another process creates an entry: a file with any content, a special
\* file, or (below the root only) a directory
ExtCreate(p, e) ==
    /\ p \notin DOMAIN fs
    /\ Kind(fs, Parent(p)) = "dir"
    /\ e.kind = "dir" => (Len(p) = 1 /\ p[1] \in DirNames)
    /\ fs' = WithEntry(fs, p, e)
    /\ res' = [NoRes EXCEPT !.op = "ext_create", !.dir = p]
    /\ UNCHANGED <<procs, qdir, fifo, handles>>

\* another process unlinks a file or a special file
ExtRemove(p) ==
    /\ p \in DOMAIN fs
    /\ fs[p].kind # "dir"
    /\ fs' = WithoutEntry(fs, p)
    /\ res' = [NoRes EXCEPT !.op = "ext_remove", !.dir = p]
    /\ UNCHANGED <<procs, qdir, fifo, handles>>

Entries == {FileEntry(c) : c \in TextValues} \cup {DirEntry, OtherEntry}

\* an empty root directory with one FSDict constructed on it
MapInit ==
    /\ qdir = EmptyFn
    /\ fifo = <<>>
    /\ fs = EmptyFn
    /\ handles = {DictHandle(<<>>)}
    /\ res = NoRes
    /\ procs = EmptyFn

\* the calls a caller can make: a handle, a key whose path stays in the
\* tree, a text value
Calls(f) == {c \in DictDirs \X Keys : InTree(f, c[1], c[2])}

SetItem == \E c \in Calls(fs), v \in TextValues : SetItemOn(c[1], c[2], v)

SetItemFails == \E c \in Calls(fs), v \in TextValues : SetItemSpecialFails(c[1], c[2], v)

SetItemLink == \E c \in Calls(fs), v \in TextValues : SetItemSpecialLink(c[1], c[2], v)

SetItemDevice == \E c \in Calls(fs), v \in TextValues : SetItemSpecialDevice(c[1], c[2], v)

GetItem == \E c \in Calls(fs) : GetItemOn(c[1], c[2])

DelItem == \E c \in Calls(fs) : DelItemOn(c[1], c[2])

Len_ == \E h \in DictDirs : DictLen(h)

Iter == \E h \in DictDirs : DictIter(h)

NewFSDict == \E p \in AllPaths \cup {<<>>} : FSDictInit(p)

NewFSQueue == \E p \in AllPaths \cup {<<>>} : FSQueueInit(p)

External ==
    \/ \E p \in AllPaths, e \in Entries : ExtCreate(p, e)
    \/ \E p \in AllPaths : ExtRemove(p)

MapNext ==
    \/ NewFSDict
    \/ NewFSQueue
    \/ SetItem
    \/ SetItemFails
    \/ SetItemLink
    \/ SetItemDevice
    \/ GetItem
    \/ DelItem
    \/ Len_
    \/ Iter
    \/ External

\* any number of FSDict handles on one tree, used one call at a time, with
\* other processes creating and removing entries in between
SpecMap == MapInit /\ [][MapNext]_vars

(***************************************************************************)
(* FSDict used by two processes at once on one directory of regular files. *)
(*   __setitem__   open(file_path, 'w') | write and close                  *)
(*   __getitem__   isfile | open and read                                  *)
(*   __delitem__   remove                                                  *)
(***************************************************************************)
\* __setitem__: open(file_path, 'w') creates the file or truncates it
MSetOpen(p, k, v) ==
    /\ procs[p].pc = "idle"
    /\ procs[p].left > 0
    /\ fs' = WithEntry(fs, k, FileEntry(<<>>))
    /\ procs' = [procs EXCEPT ![p] = [@ EXCEPT !.pc = "set_write",
                                               !.name = k,
                                               !.val = v,
                                               !.live = TRUE,
                                               !.left = @ - 1]]
    /\ UNCHANGED <<qdir, fifo, handles, res>>

\* __setitem__: file_handle.write(v) and the close that flushes it
MSetWrite(p) ==
    /\ procs[p].pc = "set_write"
    /\ fs' = IF procs[p].live
             THEN WithEntry(fs, procs[p].name, FileEntry(WriteText(procs[p].val)))
             ELSE fs
    /\ res' = [NoRes EXCEPT !.op = "setitem", !.key = procs[p].name,
                                !.val = procs[p].val]
    /\ procs' = [procs EXCEPT ![p] = Idle(@.left)]
    /\ UNCHANGED <<qdir, fifo, handles>>

\* __getitem__: os.path.isfile(target); with no file and no directory of
\* that name the call raises KeyError
MGetIsFile(p, k) ==
    /\ procs[p].pc = "idle"
    /\ procs[p].left > 0
    /\ IF IsFile(fs, <<>>, k)
       THEN /\ procs' = [procs EXCEPT ![p] = [@ EXCEPT !.pc = "get_read",
                                                      !.name = k,
                                                      !.left = @ - 1]]
            /\ res' = res
       ELSE /\ procs' = [procs EXCEPT ![p] = Idle(@.left - 1)]
            /\ res' = [NoRes EXCEPT !.op = "getitem", !.key = k,
                                        !.err = "KeyError"]
    /\ UNCHANGED <<qdir, fifo, fs, handles>>

\* __getitem__: open(target) and read(); on a name removed meanwhile open
\* raises FileNotFoundError, which the except clause does not catch
MGetRead(p) ==
    /\ procs[p].pc = "get_read"
    /\ LET target == procs[p].name
       IN  IF target \in DOMAIN fs
           THEN res' = [NoRes EXCEPT !.op = "getitem", !.key = target,
                                     !.kind = "text",
                                     !.ret = ReadText(fs[target].content)]
           ELSE res' = [NoRes EXCEPT !.op = "getitem", !.key = target,
                                     !.err = "FileNotFoundError"]
    /\ procs' = [procs EXCEPT ![p] = Idle(@.left)]
    /\ UNCHANGED <<qdir, fifo, fs, handles>>

\* __delitem__: os.remove, FileNotFoundError turned into KeyError
MDelItem(p, k) ==
    /\ procs[p].pc = "idle"
    /\ procs[p].left > 0
    /\ LET r == Remove(fs, <<>>, k)
       IN  IF r.exc = "none"
           THEN /\ fs' = WithoutEntry(fs, k)
                /\ procs' = [o \in Procs |->
                                IF o = p THEN Idle(procs[p].left - 1)
                                ELSE IF procs[o].name = k
                                THEN [procs[o] EXCEPT !.live = FALSE]
                                ELSE procs[o]]
                /\ res' = [NoRes EXCEPT !.op = "delitem", !.key = k]
           ELSE /\ fs' = fs
                /\ procs' = [procs EXCEPT ![p] = Idle(@.left - 1)]
                /\ res' = [NoRes EXCEPT !.op = "delitem", !.key = k,
                               !.err = IF DelCatches(r.exc) THEN "KeyError"
                                       ELSE r.exc]
    /\ UNCHANGED <<qdir, fifo, handles>>

\* the keys used: plain names
PlainKeys == {<<n>> : n \in Names}

\* an empty directory, one FSDict per process constructed on it
MapConcInit ==
    /\ qdir = EmptyFn
    /\ fifo = <<>>
    /\ fs = EmptyFn
    /\ handles = {DictHandle(<<>>)}
    /\ res = NoRes
    /\ procs = [p \in Procs |-> Idle(MaxOps)]

SetOpen == \E p \in Procs, k \in PlainKeys, v \in ConcValues : MSetOpen(p, k, v)

SetWrite == \E p \in Procs : MSetWrite(p)

GetItemIsFile == \E p \in Procs, k \in PlainKeys : MGetIsFile(p, k)

GetItemRead == \E p \in Procs : MGetRead(p)

DelItemRemove == \E p \in Procs, k \in PlainKeys : MDelItem(p, k)

MapConcNext ==
    \/ SetOpen
    \/ SetWrite
    \/ GetItemIsFile
    \/ GetItemRead
    \/ DelItemRemove

\* two processes, each with its own FSDict on the same directory
SpecMapConc == MapConcInit /\ [][MapConcNext]_vars

(***************************************************************************)
(* FSDict claims                                                           *)
(***************************************************************************)
\* C3: Set(k, v) followed directly by Get(k) returns exactly v, whether k
\* was absent before or held another value.
C3_SetThenGetReturnsValue ==
    (res.op = "setitem" /\ res.err = "ok" /\ res.pre \in {"absent", "file"})
        => LET g == GetOutcome(fs, res.h, res.key)
           IN  g.err = "ok" /\ g.kind = "text" /\ g.ret = res.val

\* k is the name of a direct child of the handle's directory
DirectChild(f, h, k) == Len(k) = 1 /\ Append(h, k[1]) \in DOMAIN f

\* C4: for every key that is not a direct child of the handle's directory,
\* Get and Delete fail with KeyError and leave the directory unchanged.
C4_AbsentKeyRaisesKeyError ==
    [][(res'.op \in {"getitem", "delitem"} /\ ~DirectChild(fs, res'.h, res'.key))
         => (res'.err = "KeyError" /\ fs' = fs)]_vars

\* C5: after Delete(k) succeeds the file for k is gone and Get(k) fails with
\* KeyError; a Get that fails keeps failing until a Set or another process
\* creates an entry.
C5_DeletedKeyStaysGone ==
    [][/\ (res'.op = "delitem" /\ res'.err = "ok")
            => /\ res'.dir \in DOMAIN fs
               /\ res'.dir \notin DOMAIN fs'
               /\ GetOutcome(fs', res'.h, res'.key).err = "KeyError"
       /\ (fs' # fs /\ res'.op \notin {"setitem", "ext_create"})
            => \A h \in DictDirs, k \in Keys :
                  GetOutcome(fs, h, k).err = "KeyError"
                      => GetOutcome(fs', h, k).err = "KeyError"]_vars

\* C5 witness: a Delete has just removed a regular file
C5_Witness == res.op = "delitem" /\ res.err = "ok" /\ res.pre = "file"

\* C7: constructing an FSDict or an FSQueue on a path that is not an
\* existing directory fails with ValueError; on an existing directory it
\* succeeds and the handle is bound to it; the filesystem is untouched.
C7_InitRequiresDirectory ==
    [][res'.op \in {"FSDict", "FSQueue"}
         => /\ fs' = fs
            /\ IF Kind(fs, res'.dir) = "dir"
               THEN /\ res'.err = "ok"
                    /\ res'.op = "FSDict" => DictHandle(res'.dir) \in handles'
               ELSE /\ res'.err = "ValueError"
                    /\ handles' = handles]_vars

\* C7 witness: a constructor has just refused an existing entry that is
\* not a directory
C7_Witness ==
    /\ res.op \in {"FSDict", "FSQueue"}
    /\ res.err = "ValueError"
    /\ Kind(fs, res.dir) \in {"file", "other"}

\* C8: in every directory state, special files included, Length() equals
\* the number of keys a full Iterate() produces.
C8_LenEqualsIterCount ==
    \A h \in DictDirs : \A listing \in Listings(Children(fs, h)) :
        LenOf(fs, h) = Len(IterKeys(fs, h, listing))

\* C9: a fresh Iterate() yields exactly the names of the direct children
\* that are regular files or directories at the time of the call, each
\* once.
C9_IterYieldsLiveKeys ==
    res.op = "iter"
        => /\ {res.keys[i] : i \in 1..Len(res.keys)}
                = {n \in Names : Kind(fs, Append(res.h, n)) \in {"file", "dir"}}
           /\ \A i, j \in 1..Len(res.keys) : res.keys[i] = res.keys[j] => i = j

\* C9 witness: an iteration over a directory that holds a special file
\* beside an entry it yields
C9_Witness ==
    /\ res.op = "iter"
    /\ Len(res.keys) >= 1
    /\ \E n \in Names : Kind(fs, Append(res.h, n)) = "other"

\* a key that cannot name a file: it holds a null byte, or it is '/'
InvalidKey(k) == HasNul(k) \/ k = <<"/">>

\* C11: a Get or a Set whose key cannot form a valid file path (a null
\* byte, the key '/') fails with KeyError and creates or modifies no file.
C11_InvalidKeyRaisesKeyError ==
    [][(res'.op \in {"getitem", "setitem"} /\ InvalidKey(res'.key))
         => (res'.err = "KeyError" /\ fs' = fs)]_vars

\* the error kinds of the interface: InvalidArgument (ValueError), NotFound
\* (KeyError) and Collision
DeclaredErrors == {"ValueError", "KeyError", "Collision"}

\* C12: every Get, Set and Delete of the map either succeeds or fails with
\* one of the declared kinds; no raw filesystem error reaches the caller.
C12_OnlyDeclaredErrors ==
    res.op \in {"getitem", "setitem", "delitem"}
        => res.err \in {"ok"} \cup DeclaredErrors

\* the greatest of the names S in str order
GreatestName(S) == CHOOSE n \in S : \A m \in S \ {n} : StrLT(m, n)

\* the least of the names S in str order
LeastName(S) == CHOOSE n \in S : \A m \in S \ {n} : StrLT(n, m)

\* C13: a successful Put names the new entry <prefix><n+1>, n being the
\* numeric suffix of the greatest name (in str order) among the existing
\* entries and the baseline <prefix>1, and the entry's content is the value.
C13_PutNamesNextOfGreatest ==
    [][(res'.op = "put" /\ res'.err = "ok")
         => LET greatest == GreatestName(DOMAIN qdir \cup {QName(1)})
            IN  /\ \E n \in 1..(MaxIndex + MaxPending + 1) :
                       /\ greatest = QName(n)
                       /\ res'.name = QName(n + 1)
                /\ res'.name \in DOMAIN qdir'
                /\ qdir'[res'.name] = FileEntry(res'.val)]_vars

\* a Put into a directory holding FSList-1 .. FSList-9 and nothing else
\* has written FSList-10
C13_Witness ==
    /\ res.op = "put" /\ res.err = "ok" /\ res.name = QName(10)
    /\ DOMAIN qdir = {QName(i) : i \in 1..10}
    /\ qdir[QName(10)].content = res.val

\* C14: when the least name (in str order) of a non-empty queue directory is
\* a regular file, Get returns that file's content and removes that file
\* only; when it is not a regular file, Get fails with KeyError and the
\* directory is unchanged.
C14_GetTakesLeastEntry ==
    [][(res'.op = "get" /\ DOMAIN qdir # {})
         => LET least == LeastName(DOMAIN qdir)
            IN  IF qdir[least].kind = "file"
                THEN /\ res'.err = "ok"
                     /\ res'.ret = qdir[least].content
                     /\ qdir' = [n \in DOMAIN qdir \ {least} |-> qdir[n]]
                ELSE /\ res'.err = "KeyError"
                     /\ qdir' = qdir]_vars

\* the keys of the map on directory h: the names its iteration yields
MapKeys(f, h) == {<<n>> : n \in {m \in Children(f, h) : IterKeeps(f, h, m)}}

\* C15: a successful Set(k, v) changes the entry k only: its content is
\* exactly v, the map's key set is the previous one plus k, and every other
\* entry is what it was.
C15_SetChangesOnlyItsEntry ==
    [][(res'.op = "setitem" /\ res'.err = "ok")
         => LET h == res'.h
                k == res'.key
                p == res'.h \o res'.key
            IN  /\ p \in DOMAIN fs'
                /\ fs'[p] = FileEntry(res'.val)
                /\ MapKeys(fs', h) = MapKeys(fs, h) \cup {k}
                /\ \A q \in (DOMAIN fs \cup DOMAIN fs') \ {p} :
                       q \in DOMAIN fs /\ q \in DOMAIN fs' /\ fs'[q] = fs[q]]_vars

\* C16: a Put of one producer never overwrites the entry of the other: the
\* file it opens for writing is a new entry of the directory.
C16_PutOpensNewEntry ==
    [][\A p \in DOMAIN procs :
          (procs[p].pc = "put_open" /\ procs'[p].pc = "put_write")
              => procs[p].name \notin DOMAIN qdir]_vars

\* C17: a consumer's remove never takes away an entry whose content the
\* consumer did not read.
C17_RemovesWhatItRead ==
    [][\A p \in DOMAIN procs :
          (procs[p].pc = "get_remove" /\ procs'[p].pc = "idle"
              /\ procs[p].name \in DOMAIN qdir)
              => qdir[procs[p].name].content = procs[p].raw]_vars

\* C18: the value a Get returns is a value that was passed to some Put,
\* whole (as text mode reads it back), never an empty or a cut-off one.
C18_GetReturnsWholeValue ==
    (res.op = "get" /\ res.err = "ok")
        => res.ret \in {ReadText(WriteText(fifo[i].val)) : i \in 1..Len(fifo)}

\* C19: a Get(k) that runs while another process deletes k returns the
\* content or fails with KeyError, and with no other error.
C19_GetDuringDeleteKeyError ==
    res.op = "getitem" => res.err \in {"ok", "KeyError"}

\* p lies in the directory d or below it
Under(p, d) == Len(p) > Len(d) /\ SubSeq(p, 1, Len(d)) = d

\* C10: Get(k) on a subdirectory returns an FSDict bound to it, and every
\* call on that nested FSDict reads and changes only the subdirectory's own
\* direct children, leaving the parent's entries as they were.
C10_NestedMapIsScoped ==
    [][/\ (res'.op = "getitem" /\ DirectChild(fs, res'.h, res'.key)
              /\ Kind(fs, Append(res'.h, res'.key[1])) = "dir")
            => /\ res'.err = "ok" /\ res'.kind = "FSDict"
               /\ res'.dir = Append(res'.h, res'.key[1])
               /\ DictHandle(res'.dir) \in handles'
       /\ (res'.op \in {"getitem", "setitem", "delitem", "len", "iter"}
              /\ res'.h # <<>>)
            => /\ \A p \in AllPaths :
                    ~Under(p, res'.h) => Kind(fs', p) = Kind(fs, p)
                                         /\ (p \in DOMAIN fs => fs'[p] = fs[p])
               /\ (res'.op \in {"getitem", "setitem", "delitem"} /\ res'.err = "ok")
                    => Parent(res'.dir) = res'.h]_vars

(***************************************************************************)
(* FSQueue claims                                                          *)
(***************************************************************************)
QSuffix(name) == StrToInt(SplitLast(name, FilePrefix))

\* C1: under sequential use from an empty directory every successful Get
\* returns the oldest value that was Put and not yet returned.  The value is
\* compared as text mode reads it back, so the statement is about order
\* alone: it follows from the claim, and a step that breaks it breaks the
\* claim.
C1_GetReturnsOldest ==
    [][(res'.op = "get" /\ res'.err = "ok")
         => (fifo # <<>> /\ res'.ret = ReadText(WriteText(Head(fifo).val)))]_vars

\* C2: under sequential use every Put creates a new entry: its name is not
\* in the directory, its numeric suffix is above every existing one, Size
\* grows by exactly one and every entry already there keeps its content.
C2_PutCreatesNewEntry ==
    [][(res'.op = "put" /\ res'.err = "ok")
         => /\ res'.name \notin DOMAIN qdir
            /\ \A n \in DOMAIN qdir : QSuffix(res'.name) > QSuffix(n)
            /\ QSizeOf(qdir') = QSizeOf(qdir) + 1
            /\ \A n \in DOMAIN qdir : n \in DOMAIN qdir' /\ qdir'[n] = qdir[n]]_vars

\* C6: once the queue directory is empty, Size() returns 0 and Get() fails
\* with KeyError, leaving the directory empty.
C6_DrainedGetKeyError ==
    /\ (res.op = "qsize" /\ qdir = EmptyFn) => res.n = 0
    /\ (res.op = "get" /\ res.err # "ok") => (res.err = "KeyError" /\ qdir = EmptyFn)

====
